---- MODULE Spec2Model ----
(***************************************************************************)
(* Model of class AnimatedHeap of src/sort.py: an array-backed binary heap *)
(* (min-first or max-first) whose exchanges are drawn, one chart per swap.  *)
(*                                                                         *)
(* Python lists are modelled as TLA+ sequences.  The code's indices are    *)
(* 0-based and are kept 0-based in every operator below; At(h, i) reads    *)
(* h[i] of the Python list.                                                *)
(*                                                                         *)
(* A method does not run in one piece: it hands every chart it draws to   *)
(* the caller's st_plot and then waits in time.sleep(1) (lines 17-18,      *)
(* 49-50) with self.heap as it is at that moment.  The call waits from the *)
(* moment st_plot has the chart to the end of time.sleep.  One step of the *)
(* model is the code a caller runs from the start of a call, or from the   *)
(* end of a wait, to its next wait or to the end of the call.  The private *)
(* helpers are operators that thread the list and the activation record of *)
(* the running call.                                                       *)
(*                                                                         *)
(* All calls are made in one thread.  Three kinds of caller are modelled:  *)
(* code that calls the methods one after the other; an st_plot that calls  *)
(* the instance back from graphviz_chart, so that its calls run, each to   *)
(* its end, inside the chart of the call that waits; and the page of lines *)
(* 107-216, whose run streamlit may stop in any st call and whose next run *)
(* meets the instance as the stopped one left it.  Two threads that call   *)
(* one instance at the same moment are not modelled: the class takes no    *)
(* lock and the page starts no thread.                                     *)
(***************************************************************************)
EXTENDS Integers, Sequences, FiniteSets

\* Longest list insert grows the heap to.
MaxLen == 5
\* Longest list build_heap is given when it may be called in any state.
MaxBuild == 2
\* Longest list build_heap is given when it is called on a fresh instance.
MaxInput == 5
\* Keys are the integers 1..MaxVal.
MaxVal == 3
\* Longest list of the heap, and of build_heap, when the st_plot calls too.
MaxShared == 2
\* Most calls that are started while another call waits, in one run.
MaxOverlap == 1

Values == 1..MaxVal

\* All lists over Values of length 0..n.
SeqsUpTo(n) == UNION {[1..k -> Values] : k \in 0..n}

\* The least and the greatest key: the keys used when the st_plot calls too.
Ends == {1, MaxVal}

\* All lists over Ends of length 0..n.
EndSeqsUpTo(n) == UNION {[1..k -> Ends] : k \in 0..n}

\* The least, a middle and the greatest key: the keys typed into the page.
Typed == {1, (1 + MaxVal) \div 2, MaxVal}

\* All lists over Typed of length 0..n.
TypedSeqsUpTo(n) == UNION {[1..k -> Typed] : k \in 0..n}

\* Python's None, the value delete_root returns on an empty heap; a value the
\* method returns is wrapped as <<v>> so that both compare in TLC.
None == <<>>
Some(v) == <<v>>

\* The callers of the instance: caller 1 calls it from outside; caller 2 is
\* the st_plot of caller 1, which calls the instance back from graphviz_chart
\* in the same thread, so a call of caller 2 runs to its end inside the call
\* of caller 1 that waits.
Callers == {1, 2}

VARIABLES
  heap,      \* self.heap
  is_min,    \* self.is_min
  frame,     \* for each caller the activation record of the call it is in:
             \* the method, where it waits and its local variables
  events,    \* the charts the call of the last step has drawn on st_plot so
             \* far, in order: each the list as draw_heap_tree saw it and its
             \* highlight_nodes
  ret,       \* what the call of the last step returned, if it returned
  warned,    \* whether the last step issued st.warning("Heap is empty!")
  call,      \* the last step: its caller, its method and arguments, whether
             \* the call waits, returned or raised, and what the helpers
             \* recorded of the call so far: the list it met, the exchanges
             \* made, the subscripts evaluated, for build_heap the list after
             \* each _heapify_down and the caller's list
  overlaps,  \* history: the number of calls started while another call waited
  exclusive, \* history: the list object self.heap was made by __init__ or by
             \* a build_heap and only build_heap, insert and delete_root calls
             \* have changed it since, one at a time and each to its end
  built,     \* history: the argument of the last build_heap while only
             \* delete_root and get_heap calls have followed it, else None
  drained,   \* history: what the delete_root calls since that build_heap
             \* returned, in order
  page       \* what the run of the page did itself in the last step, beside
             \* the call of its handler: the get_heap calls it made and the
             \* charts it drew on the placeholder in lines 172 and 188/200

vars == <<heap, is_min, frame, events, ret, warned, call, overlaps, exclusive,
         built, drained, page>>

\* ---------------------------------------------------------------- helpers

\* Position in a TLA+ sequence of Python index i: a negative index counts
\* from the end of the list.
Pos(h, i) == IF i < 0 THEN Len(h) + i + 1 ELSE i + 1

\* Whether list h has an item i: otherwise h[i] raises IndexError.
InRange(h, i) == -Len(h) <= i /\ i < Len(h)

\* self.heap[i], i 0-based.
At(h, i) == h[Pos(h, i)]

\* len(self.heap)
len(h) == Len(h)

\* self.heap[i], self.heap[j] = self.heap[j], self.heap[i]
Exchange(h, i, j) ==
  [h EXCEPT ![Pos(h, i)] = h[Pos(h, j)], ![Pos(h, j)] = h[Pos(h, i)]]

\* draw_heap_tree(heap, highlight_nodes): the chart, abstracted to the data it
\* is drawn from: the values in index order and the highlighted indices
\* (highlight_nodes or [], so no argument and [] draw the same chart).
draw_heap_tree(h, highlight_nodes) ==
  [heap |-> h, highlight_nodes |-> highlight_nodes]

\* The activation record of a caller that is in no call.
Idle ==
  [op |-> "none", pc |-> "idle", index |-> 0, size |-> 0, i |-> 0,
   todo |-> <<>>, root |-> None, arr |-> <<>>, same_object |-> FALSE,
   val |-> 0, pair |-> <<>>, before |-> <<>>, events |-> <<>>, swaps |-> 0,
   touched |-> {}, sifted |-> <<>>, ret |-> None, warned |-> FALSE,
   raised |-> ""]

\* What a running call works on: the list self.heap and its activation
\* record f.  f.pc tells where the call is: "run" while it runs, "line18" and
\* "line50" in the wait of that line, "break" at the end of a loop,
\* "returned" and "raised" at its end.  Beside the local variables f keeps
\* the list the call met, the charts it drew, the number of exchanges it made
\* (line 16), the subscripts it evaluated, each with the length of the list
\* at that moment, and, for build_heap, the root and the list at the end of
\* each _heapify_down of its loop.
start(h, op) ==
  [heap |-> h, f |-> [Idle EXCEPT !.op = op, !.pc = "run", !.before = h]]

\* s after evaluating self.heap[i] for each i in I.
touch(s, I) ==
  [s EXCEPT !.f.touched = @ \cup {<<i, len(s.heap)>> : i \in I}]

\* s after an IndexError: the call ends there.
index_error(s) == [s EXCEPT !.f.pc = "raised", !.f.raised = "IndexError"]

\* s after st_plot.graphviz_chart(chart): st_plot is the caller's object; it
\* returns (ok), and the call then waits in time.sleep at line `wait`, or it
\* raises, as the placeholder of the page does when streamlit stops the run,
\* and the call ends there.
graphviz_chart(s, chart, ok, wait) ==
  IF ok
  THEN [s EXCEPT !.f.events = Append(@, chart), !.f.pc = wait]
  ELSE [s EXCEPT !.f.pc = "raised", !.f.raised = "st_plot"]

\* Variant of _compare that also holds for equal keys.
CompareNonStrict(a, b, m) == IF m THEN a <= b ELSE a >= b

\* Variant of _compare that ignores self.is_min.
CompareAlwaysMin(a, b, m) == a < b

\* AnimatedHeap._compare
_compare(a, b, m) == IF m THEN a < b ELSE a > b

\* Variant of swap_and_visualize that writes one position only.
SwapCopies(s, i, j, ok) ==
  LET s1 == touch(s, IF InRange(s.heap, j) THEN {i, j} ELSE {j})
  IN  IF ~InRange(s.heap, i) \/ ~InRange(s.heap, j)
      THEN index_error(s1)
      ELSE LET h == [s.heap EXCEPT ![Pos(s.heap, i)] = s.heap[Pos(s.heap, j)]]
           IN  graphviz_chart(
                 [s1 EXCEPT !.heap = h, !.f.swaps = @ + 1, !.f.pair = <<i, j>>],
                 draw_heap_tree(h, <<i, j>>), ok, "line18")

\* Variant of swap_and_visualize that draws before it exchanges.
SwapDrawBefore(s, i, j, ok) ==
  LET s1 == touch(s, IF InRange(s.heap, j) THEN {i, j} ELSE {j})
  IN  IF ~InRange(s.heap, i) \/ ~InRange(s.heap, j)
      THEN index_error(s1)
      ELSE graphviz_chart(
             [s1 EXCEPT !.heap = Exchange(s.heap, i, j), !.f.swaps = @ + 1,
                        !.f.pair = <<i, j>>],
             draw_heap_tree(s.heap, <<i, j>>), ok, "line18")

\* AnimatedHeap.swap_and_visualize, up to its wait in line 18: the right-hand
\* side of line 16 reads item j, then item i, before either is written.
swap_and_visualize(s, i, j, ok) ==
  LET s1 == touch(s, IF InRange(s.heap, j) THEN {i, j} ELSE {j})
  IN  IF ~InRange(s.heap, i) \/ ~InRange(s.heap, j)
      THEN index_error(s1)
      ELSE LET h == Exchange(s.heap, i, j)
           IN  graphviz_chart(
                 [s1 EXCEPT !.heap = h, !.f.swaps = @ + 1, !.f.pair = <<i, j>>],
                 draw_heap_tree(h, <<i, j>>), ok, "line18")

\* Variant of _heapify_up whose loop runs while index >= 0.
HeapifyUpFromZero(s, index, m, ok) ==
  IF index >= 0
  THEN LET parent == (index - 1) \div 2
           h == s.heap
           s1 == touch(s, IF InRange(h, index) THEN {index, parent} ELSE {index})
       IN  IF ~InRange(h, index) \/ ~InRange(h, parent)
           THEN index_error(s1)
           ELSE IF _compare(At(h, index), At(h, parent), m)
                THEN [swap_and_visualize(s1, index, parent, ok) EXCEPT !.f.index = parent]
                ELSE [s1 EXCEPT !.f.pc = "break"]
  ELSE [s EXCEPT !.f.pc = "break"]

\* Variant of _heapify_up that also exchanges equal keys.
HeapifyUpNonStrict(s, index, m, ok) ==
  IF index > 0
  THEN LET parent == (index - 1) \div 2
           h == s.heap
           s1 == touch(s, IF InRange(h, index) THEN {index, parent} ELSE {index})
       IN  IF ~InRange(h, index) \/ ~InRange(h, parent)
           THEN index_error(s1)
           ELSE IF CompareNonStrict(At(h, index), At(h, parent), m)
                THEN [swap_and_visualize(s1, index, parent, ok) EXCEPT !.f.index = parent]
                ELSE [s1 EXCEPT !.f.pc = "break"]
  ELSE [s EXCEPT !.f.pc = "break"]

\* Variant of _heapify_up that takes index - 1 for the parent.
HeapifyUpPrev(s, index, m, ok) ==
  IF index > 0
  THEN LET parent == index - 1
           h == s.heap
           s1 == touch(s, IF InRange(h, index) THEN {index, parent} ELSE {index})
       IN  IF ~InRange(h, index) \/ ~InRange(h, parent)
           THEN index_error(s1)
           ELSE IF _compare(At(h, index), At(h, parent), m)
                THEN [swap_and_visualize(s1, index, parent, ok) EXCEPT !.f.index = parent]
                ELSE [s1 EXCEPT !.f.pc = "break"]
  ELSE [s EXCEPT !.f.pc = "break"]

\* AnimatedHeap._heapify_up from the test of line 21 at `index` to its next
\* wait (in swap_and_visualize, with index = parent to follow) or to the end
\* of its loop.  Line 23 reads self.heap[index] first.
_heapify_up(s, index, m, ok) ==
  IF index > 0
  THEN LET parent == (index - 1) \div 2
           h == s.heap
           s1 == touch(s, IF InRange(h, index) THEN {index, parent} ELSE {index})
       IN  IF ~InRange(h, index) \/ ~InRange(h, parent)
           THEN index_error(s1)
           ELSE IF _compare(At(h, index), At(h, parent), m)
                THEN [swap_and_visualize(s1, index, parent, ok) EXCEPT !.f.index = parent]
                ELSE [s1 EXCEPT !.f.pc = "break"]
  ELSE [s EXCEPT !.f.pc = "break"]

\* Variant of _heapify_down that never looks at the right child.
HeapifyDownLeftOnly(s, index, size, m, ok) ==
  LET h == s.heap
      left == 2 * index + 1
      reads1 == IF left < size
                THEN (IF InRange(h, left) THEN {left, index} ELSE {left})
                ELSE {}
      ok1 == \A x \in reads1 : InRange(h, x)
      swap_idx == IF left < size /\ ok1 /\ _compare(At(h, left), At(h, index), m)
                  THEN left ELSE index
      s1 == touch(s, reads1)
  IN  IF ~ok1
      THEN index_error(s1)
      ELSE IF swap_idx # index
           THEN [swap_and_visualize(s1, index, swap_idx, ok) EXCEPT
                   !.f.index = swap_idx, !.f.size = size]
           ELSE [s1 EXCEPT !.f.pc = "break"]

\* Variant of _heapify_down that looks at the right child first.
HeapifyDownRightFirst(s, index, size, m, ok) ==
  LET h == s.heap
      left == 2 * index + 1
      right == 2 * index + 2
      reads1 == IF right < size
                THEN (IF InRange(h, right) THEN {right, index} ELSE {right})
                ELSE {}
      ok1 == \A x \in reads1 : InRange(h, x)
      swap_idx1 == IF right < size /\ ok1 /\ _compare(At(h, right), At(h, index), m)
                   THEN right ELSE index
      reads2 == IF ok1 /\ left < size
                THEN (IF InRange(h, left) THEN {left, swap_idx1} ELSE {left})
                ELSE {}
      ok2 == \A x \in reads2 : InRange(h, x)
      swap_idx == IF left < size /\ ok1 /\ ok2
                     /\ _compare(At(h, left), At(h, swap_idx1), m)
                  THEN left ELSE swap_idx1
      s1 == touch(s, reads1 \cup reads2)
  IN  IF ~ok1 \/ ~ok2
      THEN index_error(s1)
      ELSE IF swap_idx # index
           THEN [swap_and_visualize(s1, index, swap_idx, ok) EXCEPT
                   !.f.index = swap_idx, !.f.size = size]
           ELSE [s1 EXCEPT !.f.pc = "break"]

\* AnimatedHeap._heapify_down from line 32 at `index`, with the size read in
\* line 30, to its next wait (in swap_and_visualize, with index = swap_idx to
\* follow) or to the end of its loop.  Lines 36 and 38 read the child first;
\* a child below the size of line 30 that the list no longer has raises
\* IndexError.
_heapify_down(s, index, size, m, ok) ==
  LET h == s.heap
      left == 2 * index + 1
      right == 2 * index + 2
      reads1 == IF left < size
                THEN (IF InRange(h, left) THEN {left, index} ELSE {left})
                ELSE {}
      ok1 == \A x \in reads1 : InRange(h, x)
      swap_idx1 == IF left < size /\ ok1 /\ _compare(At(h, left), At(h, index), m)
                   THEN left ELSE index
      reads2 == IF ok1 /\ right < size
                THEN (IF InRange(h, right) THEN {right, swap_idx1} ELSE {right})
                ELSE {}
      ok2 == \A x \in reads2 : InRange(h, x)
      swap_idx == IF right < size /\ ok1 /\ ok2
                     /\ _compare(At(h, right), At(h, swap_idx1), m)
                  THEN right ELSE swap_idx1
      s1 == touch(s, reads1 \cup reads2)
  IN  IF ~ok1 \/ ~ok2
      THEN index_error(s1)
      ELSE IF swap_idx # index
           THEN [swap_and_visualize(s1, index, swap_idx, ok) EXCEPT
                   !.f.index = swap_idx, !.f.size = size]
           ELSE [s1 EXCEPT !.f.pc = "break"]

\* Variant of the roots of build_heap that runs one index too far: it starts
\* at len // 2 instead of len // 2 - 1.
RootsOneMore(h) ==
  [k \in 1..((len(h) \div 2) + 1) |-> (len(h) \div 2) + 1 - k]

\* Variant of the roots of build_heap without reversed: 0, 1, .., len // 2 - 1.
RootsAscending(h) == [k \in 1..(len(h) \div 2) |-> k - 1]

\* reversed(range(len(self.heap) // 2)) of line 51: the roots of the
\* sift-downs of build_heap, in order.  The length is read once, after the
\* wait of line 50.
roots(h) == [k \in 1..(len(h) \div 2) |-> (len(h) \div 2) - k]

\* s at the end of the _heapify_down of build_heap rooted at s.f.i.
sifted_at(s) ==
  [s EXCEPT !.f.sifted = Append(@, [root |-> s.f.i, heap |-> s.heap]),
            !.f.pc = "run"]

\* The loop of build_heap, lines 51-52, over the roots todo, to the next wait
\* or to its end.
RECURSIVE build_loop(_, _, _, _)
build_loop(s, todo, m, ok) ==
  IF todo = <<>>
  THEN [s EXCEPT !.f.pc = "break", !.f.todo = <<>>]
  ELSE LET s1 == _heapify_down(
                   [s EXCEPT !.f.i = Head(todo), !.f.todo = Tail(todo)],
                   Head(todo), len(s.heap), m, ok)
       IN  IF s1.f.pc = "break"
           THEN build_loop(sifted_at(s1), Tail(todo), m, ok)
           ELSE s1

\* s when the method returns v, if its last loop has ended.
returns(s, v) ==
  IF s.f.pc = "break" THEN [s EXCEPT !.f.pc = "returned", !.f.ret = v] ELSE s

\* arr[:] of line 48: a new list object with the items of arr.
new_list(arr) == [items |-> arr, same_object |-> FALSE]

\* Variant of build_heap that draws no chart of the list as given.
BuildNoChart(h, arr, ok) ==
  LET mine == new_list(arr)
  IN  [start(h, "build_heap") EXCEPT
         !.heap = mine.items, !.f.arr = arr,
         !.f.same_object = mine.same_object, !.f.pc = "line50"]

\* Variant of build_heap that keeps the caller's list: self.heap = arr.
BuildNoCopy(h, arr, ok) ==
  graphviz_chart(
    [start(h, "build_heap") EXCEPT
       !.heap = arr, !.f.arr = arr, !.f.same_object = TRUE],
    draw_heap_tree(arr, <<>>), ok, "line50")

\* AnimatedHeap.build_heap up to its wait in line 50; h is the list the call
\* meets.
build_heap(h, arr, ok) ==
  LET mine == new_list(arr)
  IN  graphviz_chart(
        [start(h, "build_heap") EXCEPT
           !.heap = mine.items, !.f.arr = arr,
           !.f.same_object = mine.same_object],
        draw_heap_tree(mine.items, <<>>), ok, "line50")

\* AnimatedHeap.insert up to its first wait or to its end.
insert(h, val, m, ok) ==
  LET h1 == Append(h, val)
      s == [start(h, "insert") EXCEPT !.heap = h1, !.f.val = val]
  IN  returns(_heapify_up(s, len(h1) - 1, m, ok), None)

\* list.pop(): the list without its last item, and that item.
pop(h) == [rest |-> SubSeq(h, 1, Len(h) - 1), item |-> h[Len(h)]]

\* What delete_root does on a non-empty list h: root is the value it is to
\* return, p what pop gave, first the list the sift-down starts from.
deleted(h, root, p, first, m, ok) ==
  LET s0 == [start(h, "delete_root") EXCEPT
               !.heap = first,
               !.f.root = Some(root),
               !.f.touched = {<<0, len(h)>>, <<len(h) - 1, len(h)>>}
                             \cup (IF p.rest # <<>> THEN {<<0, len(p.rest)>>} ELSE {})]
  IN  IF p.rest # <<>>
      THEN returns(_heapify_down(s0, 0, len(first), m, ok), Some(root))
      ELSE [s0 EXCEPT !.f.pc = "returned", !.f.ret = Some(root)]

\* What delete_root does on an empty list: st.warning of line 60 returns
\* (ok) and the method returns None, or it raises, as it does when streamlit
\* stops the run there, and the call ends with no warning shown.
empty_heap(h, drawn, ok) ==
  IF ok
  THEN [start(h, "delete_root") EXCEPT
          !.f.events = drawn, !.f.pc = "returned", !.f.warned = TRUE]
  ELSE [start(h, "delete_root") EXCEPT
          !.f.pc = "raised", !.f.raised = "st.warning"]

\* Variant of delete_root that does not write the popped item to index 0.
DeleteRootKeepRoot(h, m, ok) ==
  IF h = <<>>
  THEN empty_heap(h, <<>>, ok)
  ELSE LET p == pop(h)
       IN  deleted(h, At(h, 0), p, p.rest, m, ok)

\* Variant of delete_root that returns the popped item.
DeleteRootReturnsLast(h, m, ok) ==
  IF h = <<>>
  THEN empty_heap(h, <<>>, ok)
  ELSE LET p == pop(h)
       IN  deleted(h, p.item, p,
                   IF p.rest # <<>> THEN [p.rest EXCEPT ![1] = p.item] ELSE p.rest,
                   m, ok)

\* Variant of delete_root that draws the empty heap.
DeleteRootEmptyDraws(h, m, ok) ==
  IF h = <<>>
  THEN empty_heap(h, <<draw_heap_tree(h, <<>>)>>, ok)
  ELSE LET p == pop(h)
       IN  deleted(h, At(h, 0), p,
                   IF p.rest # <<>> THEN [p.rest EXCEPT ![1] = p.item] ELSE p.rest,
                   m, ok)

\* Variant of delete_root that overwrites the root and pops nothing.
DeleteRootNoPop(h, m, ok) ==
  IF h = <<>>
  THEN empty_heap(h, <<>>, ok)
  ELSE deleted(h, At(h, 0), [rest |-> h, item |-> h[Len(h)]],
               [h EXCEPT ![1] = h[Len(h)]], m, ok)

\* AnimatedHeap.delete_root up to its first wait or to its end.
delete_root(h, m, ok) ==
  IF h = <<>>
  THEN empty_heap(h, <<>>, ok)
  ELSE LET root == At(h, 0)
           p == pop(h)
       IN  deleted(h, root, p,
                   IF p.rest # <<>> THEN [p.rest EXCEPT ![1] = p.item] ELSE p.rest,
                   m, ok)

\* Variant of get_heap that returns the list back to front.
GetHeapReversed(h) == [k \in 1..Len(h) |-> h[Len(h) + 1 - k]]

\* AnimatedHeap.get_heap: the value of the list it returns.
get_heap(h) == h

\* AnimatedHeap.get_heap: whether the list it returns is the object self.heap
\* itself; line 70 returns self.heap, not self.heap[:] or a tuple of it.
get_heap_returns_self == TRUE

\* A call of swap_and_visualize by a caller of the class, up to its wait.
swap_call(h, i, j, ok) ==
  swap_and_visualize([start(h, "swap_and_visualize") EXCEPT !.f.pair = <<i, j>>],
                     i, j, ok)

\* What a call does from the end of its wait to its next wait or to its
\* end; s holds the list as it is now and the activation record of the call.
after_wait(s, m, ok) ==
  LET r == [s EXCEPT !.f.pc = "run"]
  IN  CASE s.f.pc = "line50" ->
             returns(build_loop(r, roots(s.heap), m, ok), None)
        [] s.f.pc = "line18" /\ s.f.op = "build_heap" ->
             LET s1 == _heapify_down(r, s.f.index, s.f.size, m, ok)
             IN  returns(IF s1.f.pc = "break"
                        THEN build_loop(sifted_at(s1), s.f.todo, m, ok)
                        ELSE s1,
                        None)
        [] s.f.pc = "line18" /\ s.f.op = "delete_root" ->
             returns(_heapify_down(r, s.f.index, s.f.size, m, ok), s.f.root)
        [] s.f.pc = "line18" /\ s.f.op = "insert" ->
             returns(_heapify_up(r, s.f.index, m, ok), None)
        [] OTHER ->
             [r EXCEPT !.f.pc = "returned"]

\* ---------------------------------------------------------------- actions

\* The record variable call keeps of a step that ended with s, the list and
\* the activation record of the call of caller c.
step_of(c, s) ==
  [by |-> c, op |-> s.f.op, pc |-> s.f.pc, arr |-> s.f.arr, val |-> s.f.val,
   pair |-> s.f.pair, before |-> s.f.before, swaps |-> s.f.swaps,
   touched |-> s.f.touched, sifted |-> s.f.sifted,
   arr_after |-> IF s.f.same_object THEN s.heap ELSE s.f.arr,
   raised |-> s.f.raised]

\* A step in which the page did nothing itself.
NoPage == [asked |-> 0, line172 |-> <<>>, refresh |-> <<>>]

\* AnimatedHeap.__init__: an empty heap of either polarity, no call running.
Init ==
  /\ heap = <<>>
  /\ is_min \in BOOLEAN
  /\ frame = [c \in Callers |-> Idle]
  /\ events = <<>>
  /\ ret = None
  /\ warned = FALSE
  /\ call = step_of(1, [start(<<>>, "__init__") EXCEPT !.f.pc = "returned"])
  /\ overlaps = 0
  /\ exclusive = TRUE
  /\ built = None
  /\ drained = <<>>
  /\ page = NoPage

\* Caller c is in no call.
Free(c) == frame[c].pc = "idle"

\* A caller other than c is in a call.
Others(c) == \E d \in Callers \ {c} : ~Free(d)

\* Caller c may start a call: it is in none; caller 2, the st_plot, calls
\* only from the chart of a call that waits.
MayCall(c) ==
  /\ Free(c)
  /\ c = 2 => Others(c)
  /\ Others(c) => overlaps < MaxOverlap

\* The call of caller c is the innermost one: no call made from its chart is
\* still running.
Innermost(c) == \A d \in Callers : d > c => Free(d)

\* A step of caller c that starts a call.
Started(c) == overlaps' = IF Others(c) THEN overlaps + 1 ELSE overlaps

\* A step of caller c that ended with s: the list is as the step left it, the
\* call waits or is over.
Step(c, s) ==
  /\ heap' = s.heap
  /\ frame' = [frame EXCEPT ![c] = IF s.f.pc \in {"line18", "line50"}
                                   THEN s.f ELSE Idle]
  /\ events' = s.f.events
  /\ ret' = s.f.ret
  /\ warned' = s.f.warned
  /\ call' = step_of(c, s)
  /\ UNCHANGED is_min

\* The history of the delete_root calls after a step of a delete_root that
\* ended with s: it keeps what the calls returned up to the first None.
Drain(s) ==
  IF built = None
  THEN UNCHANGED <<built, drained>>
  ELSE IF s.f.pc = "returned"
       THEN built' = built /\ drained' = Append(drained, s.f.ret)
       ELSE IF s.f.pc = "raised"
            THEN built' = None /\ drained' = <<>>
            ELSE UNCHANGED <<built, drained>>

\* Caller c calls build_heap with a list drawn from S; st_plot returns or
\* raises as oks allows.
Build(c, S, oks) ==
  /\ MayCall(c)
  /\ Started(c)
  /\ \E arr \in S, ok \in oks :
       /\ Step(c, build_heap(heap, arr, ok))
       /\ exclusive' = (ok /\ ~Others(c))
       /\ built' = IF ok /\ ~Others(c) THEN Some(arr) ELSE None
       /\ drained' = <<>>

\* Caller c calls insert with a value of V while the list is shorter than n.
InsertBy(c, n, V, oks) ==
  /\ MayCall(c)
  /\ Started(c)
  /\ len(heap) < n
  /\ \E val \in V, ok \in oks :
       LET s == insert(heap, val, is_min, ok)
       IN  /\ Step(c, s)
           /\ exclusive' = (exclusive /\ ~Others(c) /\ s.f.pc # "raised")
           /\ built' = None
           /\ drained' = <<>>

\* Caller c calls delete_root.
DeleteRootBy(c, oks) ==
  /\ MayCall(c)
  /\ Started(c)
  /\ \E ok \in oks :
       LET s == delete_root(heap, is_min, ok)
       IN  /\ Step(c, s)
           /\ exclusive' = (exclusive /\ ~Others(c) /\ s.f.pc # "raised")
           /\ IF Others(c) \/ (drained # <<>> /\ drained[Len(drained)] = None)
              THEN built' = None /\ drained' = <<>>
              ELSE Drain(s)

\* Caller c calls get_heap.
GetHeapBy(c) ==
  /\ MayCall(c)
  /\ Started(c)
  /\ Step(c, [start(heap, "get_heap") EXCEPT
                !.f.pc = "returned", !.f.ret = Some(get_heap(heap))])
  /\ UNCHANGED <<exclusive, built, drained>>

\* Caller c calls swap_and_visualize, a public method of the class, with
\* indices from -1 to the length of the list: the last two raise IndexError.
SwapAndVisualizeBy(c, oks) ==
  /\ MayCall(c)
  /\ Started(c)
  /\ \E i \in (-1)..len(heap), j \in (-1)..len(heap), ok \in oks :
       LET s == swap_call(heap, i, j, ok)
       IN  /\ Step(c, s)
           /\ exclusive' = (exclusive /\ s.f.raised = "IndexError")
           /\ built' = None
           /\ drained' = <<>>

\* The wait of caller c ends and its call goes on, to its next wait or to its
\* end; a call made from its chart has ended before.
ResumeBy(c, oks) ==
  /\ ~Free(c)
  /\ Innermost(c)
  /\ UNCHANGED overlaps
  /\ \E ok \in oks :
       LET s == after_wait([heap |-> heap, f |-> frame[c]], is_min, ok)
       IN  /\ Step(c, s)
           /\ exclusive' = (exclusive /\ s.f.pc # "raised")
           /\ IF s.f.op = "delete_root"
              THEN Drain(s)
              ELSE IF s.f.pc = "raised"
                   THEN built' = None /\ drained' = <<>>
                   ELSE UNCHANGED <<built, drained>>

\* Caller c assigns val to item index of the list get_heap returned to it
\* (ret holds that list).  The assignment reaches self.heap when the list is
\* the same object; call.before keeps self.heap as it was.
CallerWritesBy(c) ==
  /\ MayCall(c)
  /\ Started(c)
  /\ call.by = c
  /\ call.op \in {"get_heap", "caller_write"}
  /\ \E index \in 0..(Len(ret[1]) - 1), val \in Values :
       LET g == [ret[1] EXCEPT ![index + 1] = val]
           s == [start(heap, "caller_write") EXCEPT
                   !.heap = IF get_heap_returns_self THEN g ELSE heap,
                   !.f.pc = "returned", !.f.ret = Some(g),
                   !.f.pair = <<index>>, !.f.val = val]
       IN  /\ Step(c, s)
           /\ exclusive' = (exclusive /\ ~get_heap_returns_self)
           /\ built' = None
           /\ drained' = <<>>

\* The call of the step is made by code that is not the page.
Direct == page' = NoPage

\* The st_plot of caller 1 does not handle what the call it made has just
\* raised: graphviz_chart raises it in turn and the call of caller 1 ends
\* there, in line 17 or line 49.
LetsThroughBy(c) ==
  /\ ~Free(c)
  /\ Innermost(c)
  /\ call.by > c
  /\ call.pc = "raised"
  /\ UNCHANGED overlaps
  /\ Step(c, [heap |-> heap,
              f |-> [frame[c] EXCEPT !.pc = "raised", !.raised = call.raised]])
  /\ exclusive' = FALSE
  /\ built' = None
  /\ drained' = <<>>

\* The calls of one caller, one after the other, whose st_plot returns.

\* build_heap called in any state of the instance.
BuildHeap == Build(1, SeqsUpTo(MaxBuild), {TRUE}) /\ Direct

\* build_heap called right after __init__, as the Animate Heapify button does
\* in lines 154 and 160.
BuildFresh ==
  /\ call.op = "__init__"
  /\ Build(1, SeqsUpTo(MaxInput), {TRUE})
  /\ Direct

Insert == InsertBy(1, MaxLen, Values, {TRUE}) /\ Direct

DeleteRoot == DeleteRootBy(1, {TRUE}) /\ Direct

GetHeap == GetHeapBy(1) /\ Direct

Resume == ResumeBy(1, {TRUE}) /\ Direct

CallerWrites == CallerWritesBy(1) /\ Direct

\* The runs of the page, lines 107-216.  A run executes the script from the
\* top with at most one button clicked.  Streamlit may stop it in any st
\* call, the charts on the placeholder and st.warning included: that call
\* raises and the run ends where it is.  The instance stays in
\* st.session_state (line 154) and the next run meets it as it was left.

\* st.session_state.animated_heap holds the instance (line 164): the
\* Animate Heapify handler has got to line 154.
Stored == call.op # "__init__" \/ call.pc = "raised"

\* What a run does itself, in order, once the call cl of its handler has
\* returned r: "get" is a get_heap call, "line172" and "refresh" are the
\* charts of the list that call returned, drawn on the placeholder in line
\* 172 and in line 188 or 200.  After build_heap: lines 172-173, 205, 209;
\* after insert, and after a delete_root that returned a value: lines
\* 188-190 or 200-202, then 205, 209; after a delete_root that returned
\* None: lines 205, 209.
rest_of_run(cl, r) ==
  IF cl.pc # "returned" THEN <<>>
  ELSE CASE cl.op = "build_heap" -> <<"get", "line172", "get", "get">>
         [] cl.op = "insert" -> <<"get", "refresh", "get", "get">>
         [] cl.op = "delete_root" /\ r # None -> <<"get", "refresh", "get", "get">>
         [] cl.op = "delete_root" /\ r = None -> <<"get", "get">>
         [] OTHER -> <<>>

\* How many of these a run can have done when it ends or an st call stops
\* it.  After build_heap and insert any number: st.success comes first
\* (lines 161, 186) and an st call follows each of them.  After a delete_root
\* no st call stands between the chart of lines 200-202 and the get_heap of
\* line 205, which is evaluated before st.metric is called; without that
\* chart the get_heap of line 205 is the first thing the run does.
stops(cl, r) ==
  IF cl.pc = "returned" /\ cl.op = "delete_root"
  THEN IF r = None THEN {1, 2} ELSE {0, 1, 3, 4}
  ELSE 0..Len(rest_of_run(cl, r))

\* A run of the page with no call of a handler: lines 172-173, 205, 209.
View == <<"get", "line172", "get", "get">>

\* What the page did itself in a step: top tells whether the step began a run
\* whose handler is below line 173, so that lines 172-173 came first, with
\* the list h; done is what the run did after the call, with the list h1.
shown(top, done, h, h1) ==
  LET has(x) == \E k \in 1..Len(done) : done[k] = x
  IN  [asked |-> (IF top THEN 1 ELSE 0)
                 + Cardinality({k \in 1..Len(done) : done[k] = "get"}),
       line172 |-> IF top THEN <<draw_heap_tree(get_heap(h), <<>>)>>
                   ELSE IF has("line172")
                        THEN <<draw_heap_tree(get_heap(h1), <<>>)>>
                        ELSE <<>>,
       refresh |-> IF has("refresh")
                   THEN <<draw_heap_tree(get_heap(h1), <<>>)>>
                   ELSE <<>>]

\* The run around the call of the step: it does what follows the call, all of
\* it or up to the st call that stops it.
Around(top) ==
  LET todo == rest_of_run(call', ret')
  IN  \E n \in stops(call', ret') :
        page' = shown(top, SubSeq(todo, 1, n), heap, heap')

\* A run with Animate Heapify clicked, lines 152-161 and then 164-213: it
\* makes the instance and calls build_heap, or is stopped in st.empty of line
\* 157 with the instance stored and never built.  A later click of the button
\* makes a new instance.
PageBuild ==
  /\ call.op = "__init__"
  /\ \/ Build(1, TypedSeqsUpTo(MaxInput), BOOLEAN) /\ Around(FALSE)
     \/ /\ Step(1, [start(heap, "__init__") EXCEPT
                      !.f.pc = "raised", !.f.raised = "st.empty"])
        /\ UNCHANGED <<overlaps, exclusive, built, drained>>
        /\ Direct

\* A run with Insert Node clicked: lines 172-173, the handler of lines
\* 183-190, lines 205 and 209.
PageInsert ==
  /\ Stored
  /\ InsertBy(1, MaxLen, Typed, BOOLEAN)
  /\ Around(TRUE)

\* A run with Delete Root clicked: lines 172-173, the handler of lines
\* 194-202, lines 205 and 209.
PageDeleteRoot ==
  /\ Stored
  /\ DeleteRootBy(1, BOOLEAN)
  /\ Around(TRUE)

\* A run that gets to no handler: no button is clicked, or the run is stopped
\* before the handler of the one that is.
PageView ==
  /\ Stored
  /\ GetHeapBy(1)
  /\ \E n \in 1..Len(View) : page' = shown(FALSE, SubSeq(View, 1, n), heap, heap')

\* The run goes on after a wait of the call of its handler.
PageResume == ResumeBy(1, BOOLEAN) /\ Around(FALSE)

\* The calls of caller 1 and, from the charts of its calls, of its st_plot;
\* every st_plot returns.
AnyBuildHeap ==
  /\ \E c \in Callers : Build(c, EndSeqsUpTo(MaxShared), {TRUE})
  /\ Direct

AnyInsert ==
  /\ \E c \in Callers : InsertBy(c, MaxShared, Ends, {TRUE})
  /\ Direct

AnyDeleteRoot == (\E c \in Callers : DeleteRootBy(c, {TRUE})) /\ Direct

AnyGetHeap == (\E c \in Callers : GetHeapBy(c)) /\ Direct

AnySwapAndVisualize ==
  /\ \E c \in Callers : SwapAndVisualizeBy(c, {TRUE})
  /\ Direct

AnyResume == (\E c \in Callers : ResumeBy(c, {TRUE})) /\ Direct

LetsThrough == LetsThroughBy(1) /\ Direct

\* Every public method of the class called in any order, by caller 1 and,
\* from the charts of its calls, by its st_plot.
Next ==
  \/ AnyBuildHeap \/ AnyInsert \/ AnyDeleteRoot \/ AnyGetHeap
  \/ AnySwapAndVisualize \/ AnyResume \/ LetsThrough

Spec == Init /\ [][Next]_vars

\* One caller, any sequence of build_heap, insert, delete_root and get_heap
\* calls, each started when the one before has returned.
NextCalls == BuildHeap \/ Insert \/ DeleteRoot \/ GetHeap \/ Resume

SpecCalls == Init /\ [][NextCalls]_vars

\* One build_heap on a fresh instance, then delete_root and get_heap calls.
NextBuild == BuildFresh \/ DeleteRoot \/ GetHeap \/ Resume

SpecBuild == Init /\ [][NextBuild]_vars

\* One build_heap on a fresh instance, then any insert, delete_root and
\* get_heap calls: the methods the page calls.
NextOps == BuildFresh \/ Insert \/ DeleteRoot \/ GetHeap \/ Resume

SpecOps == Init /\ [][NextOps]_vars

\* The same calls, and a caller that writes to the list get_heap gave it.
NextAlias == BuildFresh \/ Insert \/ DeleteRoot \/ GetHeap \/ Resume \/ CallerWrites

SpecAlias == Init /\ [][NextAlias]_vars

\* The runs of the page, each stopped in an st call or not.
NextStop == PageBuild \/ PageInsert \/ PageDeleteRoot \/ PageView \/ PageResume

SpecStop == Init /\ [][NextStop]_vars

\* ---------------------------------------------------- properties checked

\* a may stand above b in a heap of the given polarity.
MayParent(a, b, m) == IF m THEN a <= b ELSE a >= b

\* a is strictly preferred over b: a must stand above b.
Preferred(a, b, m) == IF m THEN a < b ELSE a > b

\* The heap-order property of list h for polarity m.
HeapOrdered(h, m) ==
  \A i \in 0..(Len(h) - 1) :
    \A c \in {2 * i + 1, 2 * i + 2} :
      c < Len(h) => MayParent(h[i + 1], h[c + 1], m)

\* Number of occurrences of v in list h.
Count(h, v) == Cardinality({k \in 1..Len(h) : h[k] = v})

\* h and g hold the same values, each as often.
SameBag(h, g) == \A v \in Values : Count(h, v) = Count(g, v)

\* The charts of e that highlight two nodes.
Highlighted(e) == {k \in 1..Len(e) : e[k].highlight_nodes # <<>>}

\* No caller is in a call.
Quiet == \A c \in Callers : Free(c)

\* The last step ended a call of method op, which returned.
Done(op) == call.op = op /\ call.pc = "returned"

\* The call of s run from where it is to its end, no call made from its
\* charts and every chart drawn.
RECURSIVE to_end(_, _)
to_end(s, m) ==
  IF s.f.pc \in {"line18", "line50"}
  THEN to_end(after_wait(s, m, TRUE), m)
  ELSE s

\* C1: after every completed build_heap, insert and delete_root call of a
\* sequence of such calls, each parent and each of its existing children are
\* in heap order for the polarity of the heap.
C1_HeapOrder == (Quiet /\ exclusive) => HeapOrdered(heap, is_min)

\* C1 case: a delete_root that sifted the moved item down two levels, the
\* list being out of heap order at its first wait.
C1_Witness ==
  /\ Done("delete_root")
  /\ call.swaps = 2
  /\ len(heap) = 4
  /\ ~HeapOrdered(events[1].heap, is_min)

\* C2: the delete_root calls that follow a build_heap of list S return |S|
\* values, in sorted order for the polarity, that together with what the heap
\* still holds are the values of S; the call after them, and no call before,
\* returns None.
C2_DrainSorted ==
  (built # None /\ Quiet) =>
    LET S == built[1]
        n == Len(drained)
        vals == [k \in 1..(IF n > Len(S) THEN Len(S) ELSE n) |-> drained[k][1]]
    IN  /\ n <= Len(S) + 1
        /\ \A k \in 1..n : (drained[k] = None) <=> (k = Len(S) + 1)
        /\ \A k \in 1..(Len(vals) - 1) : MayParent(vals[k], vals[k + 1], is_min)
        /\ Len(vals) + len(heap) = Len(S)
        /\ SameBag(vals \o heap, S)

\* C2 case: five values, three of them distinct and not given in order, all
\* drained and None returned by the sixth call.
C2_Witness ==
  /\ built # None
  /\ Quiet
  /\ Len(built[1]) = 5
  /\ Len(drained) = 6
  /\ Cardinality({built[1][k] : k \in 1..5}) = 3
  /\ built[1][1] = 2 /\ built[1][5] = IF is_min THEN 1 ELSE 3

\* C3: build_heap leaves exactly the values of its argument, insert adds one
\* occurrence of its argument and nothing else, delete_root on a non-empty
\* heap removes one occurrence of the value it returns and nothing else;
\* call.before is the list the call met.
C3_Multiset ==
  /\ call.op = "build_heap" => SameBag(heap, call.arr)
  /\ call.op = "insert" =>
       \A v \in Values :
         Count(heap, v) = Count(call.before, v) + (IF v = call.val THEN 1 ELSE 0)
  /\ (Done("delete_root") /\ call.before # <<>>) =>
       /\ ret # None
       /\ \A v \in Values :
            Count(heap, v) = Count(call.before, v) - (IF v = ret[1] THEN 1 ELSE 0)

\* C3 case: a delete_root that returned a value the heap holds again, after
\* an exchange.
C3_Witness ==
  /\ Done("delete_root")
  /\ ret # None
  /\ call.swaps >= 1
  /\ Count(heap, ret[1]) >= 1

\* C4: delete_root on a non-empty heap returns the value that was at index 0,
\* no held value is strictly preferred over it; an inserted value strictly
\* preferred over every held value ends at index 0, and a delete_root that
\* follows an insert that ended at index 0 takes the inserted value as the
\* one to return.
C4_RootExtremum ==
  [][ /\ (call'.op = "delete_root" /\ call'.pc = "returned"
            /\ call'.before # <<>>) =>
           /\ ret' = Some(call'.before[1])
           /\ \A k \in 1..Len(call'.before) :
                MayParent(ret'[1], call'.before[k], is_min)
      /\ (call'.op = "insert" /\ call'.pc = "returned"
            /\ \A k \in 1..Len(call'.before) :
                 Preferred(call'.val, call'.before[k], is_min)) =>
           heap'[1] = call'.val
      /\ (Done("insert") /\ heap[1] = call.val /\ call'.op = "delete_root") =>
           (IF call'.pc = "returned" THEN ret' ELSE frame'[1].root)
             = Some(call.val)
    ]_vars

\* C4 case: an insert that sifted its value up two levels to the root.
C4_Witness ==
  /\ Done("insert")
  /\ call.swaps = 2
  /\ heap[1] = call.val
  /\ \A k \in 2..Len(heap) : Preferred(heap[1], heap[k], is_min)

\* C5: in every step of an insert the list is one longer than the call met
\* it, in every step of a delete_root on a non-empty list one shorter, and a
\* delete_root on an empty list leaves it empty; whatever the list holds.
C5_Size ==
  /\ call.op = "insert" => len(heap) = len(call.before) + 1
  /\ (call.op = "delete_root" /\ call.before # <<>>) =>
       len(heap) = len(call.before) - 1
  /\ (call.op = "delete_root" /\ call.before = <<>>) => len(heap) = 0

\* C5 case: a delete_root that left four of five values, of a list that was
\* not in heap order.
C5_Witness ==
  /\ Done("delete_root")
  /\ ret # None
  /\ len(heap) = 4
  /\ ~HeapOrdered(call.before, is_min)

\* C6: delete_root on an empty heap warns and returns None at once, changes
\* neither the list nor the polarity and draws no chart; on a non-empty heap
\* it does not warn and does not return None.
C6_EmptyHeap ==
  [][ /\ (call'.op = "delete_root" /\ call'.before = <<>>) =>
           /\ call'.pc = "returned"
           /\ warned'
           /\ ret' = None
           /\ heap = <<>>
           /\ heap' = heap
           /\ is_min' = is_min
           /\ events' = <<>>
      /\ (call'.op = "delete_root" /\ call'.before # <<>>) =>
           /\ ~warned'
           /\ call'.pc = "returned" => ret' # None
    ]_vars

\* C6 case: a delete_root that the st_plot called from the chart of a
\* build_heap and that met an empty heap.
C6_Witness ==
  /\ Done("delete_root")
  /\ warned
  /\ ret = None
  /\ heap = <<>>
  /\ \E c \in Callers : frame[c].op = "build_heap"

\* The list a call starts exchanging from: the argument of build_heap, the
\* list with the value appended for insert, the list with its last item
\* moved to index 0 for delete_root.
C7_Start(h, c) ==
  CASE c.op = "build_heap" -> c.arr
    [] c.op = "insert" -> Append(h, c.val)
    [] c.op = "delete_root" ->
         IF Len(h) >= 2
         THEN <<h[Len(h)]>> \o SubSeq(h, 2, Len(h) - 1)
         ELSE <<>>
    [] OTHER -> h

\* C7: in every step of a call it has drawn as many highlighted charts as it
\* has made exchanges; each shows the list right after its exchange (the
\* chart before it, or the list the call started from, with the two
\* highlighted positions exchanged) and highlights a parent index and one of
\* its children, the last one shows the list as it is; the only chart without
\* highlight is the first of build_heap.
C7_Events ==
  call.op \in {"build_heap", "insert", "delete_root"} =>
    LET e == events
        first == IF call.op = "build_heap" THEN 2 ELSE 1
    IN  /\ Cardinality(Highlighted(e)) = call.swaps
        /\ Highlighted(e) = first..Len(e)
        /\ \A k \in Highlighted(e) :
             LET i == e[k].highlight_nodes[1]
                 j == e[k].highlight_nodes[2]
                 p == IF i < j THEN i ELSE j
                 c == IF i < j THEN j ELSE i
                 before == IF k = first THEN C7_Start(call.before, call)
                           ELSE e[k - 1].heap
             IN  /\ Len(e[k].highlight_nodes) = 2
                 /\ p >= 0 /\ c < Len(e[k].heap)
                 /\ c \in {2 * p + 1, 2 * p + 2}
                 /\ Len(e[k].heap) = Len(before)
                 /\ e[k].heap[p + 1] = before[c + 1]
                 /\ e[k].heap[c + 1] = before[p + 1]
                 /\ \A q \in 1..Len(before) :
                      q \notin {p + 1, c + 1} => e[k].heap[q] = before[q]
        /\ Highlighted(e) # {} => e[Len(e)].heap = heap
        /\ Highlighted(e) = {} => heap = C7_Start(call.before, call)

\* C7 case: a delete_root that made two exchanges and drew two charts.
C7_Witness ==
  /\ Done("delete_root")
  /\ call.swaps = 2
  /\ Len(events) = 2
  /\ events[1].heap # events[2].heap

\* C8: from its first wait on, the first chart of build_heap has no highlight
\* and shows the argument in its order, no later chart is without highlight;
\* for an argument of fewer than 2 values it is the only chart and the list
\* is the argument.
C8_InitialChart ==
  call.op = "build_heap" =>
    /\ Len(events) >= 1
    /\ events[1] = [heap |-> call.arr, highlight_nodes |-> <<>>]
    /\ \A k \in 2..Len(events) : events[k].highlight_nodes # <<>>
    /\ Len(call.arr) < 2 => (Len(events) = 1 /\ heap = call.arr)

\* C8 case: a build_heap of five values that made three exchanges.
C8_Witness ==
  /\ Done("build_heap")
  /\ Len(call.arr) = 5
  /\ call.swaps = 3
  /\ Len(events) = 4

\* C9: build_heap of a list already in heap order makes no exchange, draws
\* only the initial chart and leaves the list as given; so does build_heap of
\* the list an earlier build_heap produced.
C9_BuildIdempotent ==
  call.op = "build_heap" =>
    /\ HeapOrdered(call.arr, is_min) =>
         (call.swaps = 0 /\ Len(events) = 1 /\ heap = call.arr)
    /\ call.pc = "returned" =>
         LET again == to_end(build_heap(heap, heap, TRUE), is_min)
         IN  /\ again.f.pc = "returned"
             /\ again.f.swaps = 0
             /\ Len(again.f.events) = 1
             /\ again.heap = heap

\* C9 case: a build_heap of five values in heap order, with equal keys at a
\* parent and its child.
C9_Witness ==
  /\ Done("build_heap")
  /\ Len(call.arr) = 5
  /\ HeapOrdered(call.arr, is_min)
  /\ call.arr[1] = call.arr[2]
  /\ call.arr[2] = call.arr[5]
  /\ call.arr[3] # call.arr[1]

\* C10: get_heap, in any state, a wait of another call included, returns the
\* list as it is, position by position, changes neither the list nor the
\* polarity nor the call that waits, and draws no chart.
C10_GetHeap ==
  [][ call'.op = "get_heap" =>
        /\ call'.pc = "returned"
        /\ ret' = Some(heap)
        /\ heap' = heap
        /\ is_min' = is_min
        /\ events' = <<>>
        /\ \A c \in Callers : ~Free(c) => frame'[c] = frame[c]
    ]_vars

\* C10 case: get_heap called from a chart of a build_heap returned a list
\* that is not in heap order.
C10_Witness ==
  /\ Done("get_heap")
  /\ ret = Some(heap)
  /\ ~HeapOrdered(heap, is_min)
  /\ \E c \in Callers : frame[c].op = "build_heap"

\* C11: a caller that writes to the list get_heap returned does not change
\* the list of the heap, which therefore stays in heap order.
C11_SnapshotIsolated ==
  call.op = "caller_write" =>
    /\ heap = call.before
    /\ HeapOrdered(heap, is_min)

\* C12: no step changes the polarity, and the comparisons follow it: an
\* insert into a non-empty heap exchanges at least once exactly when its
\* value is strictly preferred, for the polarity, over the parent of the new
\* last index, and every call leaves the list in heap order for the polarity.
C12_PolarityFixed ==
  [][ /\ is_min' = is_min
      /\ (call'.op = "insert" /\ call'.before # <<>>) =>
           ((call'.swaps > 0) <=>
              Preferred(call'.val,
                        call'.before[((Len(call'.before) - 1) \div 2) + 1],
                        is_min))
      /\ (call'.op \in {"build_heap", "insert", "delete_root"}
            /\ call'.pc = "returned") =>
           HeapOrdered(heap', is_min)
    ]_vars

\* C12 case: an insert into a max-heap that moved its value up two levels.
C12_Witness ==
  /\ ~is_min
  /\ Done("insert")
  /\ call.swaps = 2
  /\ len(heap) = 5

\* Some existing child of index i of list b is strictly preferred over b[i].
HasPreferredChild(b, i, m) ==
  \E c \in {2 * i + 1, 2 * i + 2} :
    c < Len(b) /\ Preferred(b[c + 1], b[i + 1], m)

\* The child of index i of list b an exchange goes to: the left one, unless
\* the right one exists and is strictly preferred over the left one.
Partner(b, i, m) ==
  IF 2 * i + 2 < Len(b) /\ Preferred(b[2 * i + 3], b[2 * i + 2], m)
  THEN 2 * i + 2
  ELSE 2 * i + 1

\* C13: every exchange of a sift-down, in build_heap and in delete_root, is
\* made at an index that has a strictly preferred child and goes to the left
\* child unless the right child is strictly preferred over the left one (so
\* to the left child when the two are equal); a sift-down stops, and makes no
\* exchange at all, where no child is strictly preferred.
C13_SiftDownChoice ==
  call.op \in {"build_heap", "delete_root"} =>
    LET e == events
        first == IF call.op = "build_heap" THEN 2 ELSE 1
        from == C7_Start(call.before, call)
    IN  /\ \A k \in first..Len(e) :
             LET before == IF k = first THEN from ELSE e[k - 1].heap
                 i == e[k].highlight_nodes[1]
                 j == e[k].highlight_nodes[2]
             IN  /\ HasPreferredChild(before, i, is_min)
                 /\ j = Partner(before, i, is_min)
                 /\ (2 * i + 2 < Len(before)
                       /\ before[2 * i + 2] = before[2 * i + 3]) => j = 2 * i + 1
        /\ (Done("delete_root") /\ Len(call.before) >= 2) =>
             LET stop == IF e = <<>> THEN 0 ELSE e[Len(e)].highlight_nodes[2]
             IN  /\ ~HasPreferredChild(heap, stop, is_min)
                 /\ (e = <<>>) <=> ~HasPreferredChild(from, 0, is_min)
        /\ call.op = "build_heap" =>
             \A k \in 1..Len(call.sifted) :
               LET before == IF k = 1 THEN from ELSE call.sifted[k - 1].heap
               IN  (call.sifted[k].heap = before)
                     <=> ~HasPreferredChild(before, call.sifted[k].root, is_min)

\* C13 case: a delete_root whose first exchange met two equal children, both
\* strictly preferred over the item at index 0, and went to the left one.
C13_Witness ==
  /\ Done("delete_root")
  /\ events # <<>>
  /\ events[1].highlight_nodes = <<0, 1>>
  /\ Len(events[1].heap) >= 3
  /\ events[1].heap[1] = events[1].heap[3]
  /\ events[1].heap[2] # events[1].heap[1]

\* C14: insert appends its value at index old-length, then exchanges it with
\* its parent while it is strictly preferred over that parent; it ends at
\* index 0 or under a parent it is not strictly preferred over; a value not
\* strictly preferred over the parent of the new last index (equal to it
\* included) draws nothing and stays at the last index.
C14_InsertSiftUp ==
  call.op = "insert" =>
    LET v == call.val
        n == Len(call.before)
        b == Append(call.before, v)
        e == events
        p == IF e = <<>> THEN n ELSE e[Len(e)].highlight_nodes[2]
    IN  /\ \A k \in 1..Len(e) :
             LET before == IF k = 1 THEN b ELSE e[k - 1].heap
                 idx == IF k = 1 THEN n ELSE e[k - 1].highlight_nodes[2]
                 par == (idx - 1) \div 2
             IN  /\ idx > 0
                 /\ e[k].highlight_nodes = <<idx, par>>
                 /\ before[idx + 1] = v
                 /\ Preferred(v, before[par + 1], is_min)
                 /\ e[k].heap[par + 1] = v
                 /\ e[k].heap[idx + 1] = before[par + 1]
        /\ heap[p + 1] = v
        /\ call.pc = "returned" =>
             (p = 0 \/ ~Preferred(v, heap[((p - 1) \div 2) + 1], is_min))
        /\ e = <<>> => (heap = b /\ call.pc = "returned")
        /\ (n >= 1 /\ ~Preferred(v, call.before[((n - 1) \div 2) + 1], is_min)) =>
             (e = <<>> /\ heap = b)

\* C14 case: an insert of a value equal to the parent of the new last index
\* 3, which made no exchange.
C14_Witness ==
  /\ Done("insert")
  /\ call.swaps = 0
  /\ events = <<>>
  /\ len(heap) = 4
  /\ heap[4] = call.val
  /\ heap[2] = call.val
  /\ heap[1] # call.val

\* C15: in every step of a build_heap, insert or delete_root call, whatever
\* the list holds, every subscript the call has evaluated, and every index it
\* has highlighted, lies in 0..length-1 of the list at that moment; a
\* delete_root on an empty heap, an insert into an empty heap and a
\* build_heap of fewer than 2 values evaluate none, a delete_root of the only
\* item none but index 0.
C15_IndicesInRange ==
  call.op \in {"build_heap", "insert", "delete_root"} =>
    /\ call.raised # "IndexError"
    /\ \A t \in call.touched : 0 <= t[1] /\ t[1] < t[2]
    /\ \A k \in 1..Len(events) :
         \A x \in 1..Len(events[k].highlight_nodes) :
           /\ 0 <= events[k].highlight_nodes[x]
           /\ events[k].highlight_nodes[x] < Len(events[k].heap)
    /\ (call.op = "delete_root" /\ warned) => call.touched = {}
    /\ (call.op = "delete_root" /\ Len(call.before) = 1) =>
         call.touched = {<<0, 1>>}
    /\ (call.op = "insert" /\ call.before = <<>>) => call.touched = {}
    /\ (call.op = "build_heap" /\ Len(call.arr) < 2) => call.touched = {}

\* C15 case: a delete_root on five values that were not in heap order, which
\* made two exchanges: it read index 0 and popped index 4 of the list of
\* five, and reached index 3 of the list of four.
C15_Witness ==
  /\ Done("delete_root")
  /\ ~HeapOrdered(call.before, is_min)
  /\ call.swaps = 2
  /\ <<0, 5>> \in call.touched
  /\ <<4, 5>> \in call.touched
  /\ <<3, 4>> \in call.touched

\* The measure of a call in each of its steps: the exchanges of an insert go
\* to a strictly smaller index each, from the last index on, each starting
\* where the one before ended; those of a delete_root go to a strictly larger
\* index below the length each, from index 0 on; those of build_heap go to a
\* larger index below the length; build_heap makes floor(length / 2)
\* sift-downs, no more on the way and exactly as many when it has returned.
C16_Steps ==
  /\ call.op = "insert" =>
       /\ Len(events) <= len(heap) - 1
       /\ \A k \in 1..Len(events) :
            /\ events[k].highlight_nodes[2] < events[k].highlight_nodes[1]
            /\ events[k].highlight_nodes[2] >= 0
            /\ events[k].highlight_nodes[1] =
                 IF k = 1 THEN len(heap) - 1 ELSE events[k - 1].highlight_nodes[2]
  /\ call.op = "delete_root" =>
       /\ Len(events) <= len(heap)
       /\ \A k \in 1..Len(events) :
            /\ events[k].highlight_nodes[2] > events[k].highlight_nodes[1]
            /\ events[k].highlight_nodes[2] < len(heap)
            /\ events[k].highlight_nodes[1] =
                 IF k = 1 THEN 0 ELSE events[k - 1].highlight_nodes[2]
  /\ call.op = "build_heap" =>
       /\ call.pc = "returned" => Len(call.sifted) = Len(call.arr) \div 2
       /\ Len(call.sifted) <= Len(call.arr) \div 2
       /\ \A k \in 2..Len(events) :
            /\ events[k].highlight_nodes[2] > events[k].highlight_nodes[1]
            /\ events[k].highlight_nodes[2] < len(heap)

\* A bound on the steps a waiting call with activation record f still takes:
\* the index of an insert, the distance of the index of a sift-down to its
\* size, and for build_heap the sift-downs still to start as well.
Measure(f, h) ==
  CASE f.pc = "idle" -> 0
    [] f.op = "insert" -> f.index + 1
    [] f.op = "delete_root" -> f.size - f.index
    [] f.op = "build_heap" /\ f.pc = "line50" ->
         ((len(h) \div 2) + 1) * (len(h) + 1)
    [] f.op = "build_heap" /\ f.pc = "line18" ->
         Len(f.todo) * (f.size + 1) + (f.size - f.index)
    [] OTHER -> 1

\* C16: every build_heap, insert and delete_root call ends: a call that waits
\* can go on, each of its steps makes the measure of what is left strictly
\* smaller, the measure is never negative, and no step raises; in every step
\* its exchanges and sift-downs are as C16_Steps says.
C16_Terminates ==
  [][ /\ C16_Steps'
      /\ Measure(frame'[1], heap') >= 0
      /\ ~Free(1) =>
           /\ call'.pc \in {"line18", "returned"}
           /\ Measure(frame'[1], heap') < Measure(frame[1], heap)
    ]_vars

\* C16 case: a build_heap of five values: two sift-downs, three exchanges.
C16_Witness ==
  /\ Done("build_heap")
  /\ Len(call.arr) = 5
  /\ Len(call.sifted) = 2
  /\ call.swaps = 3

\* Index x lies in the subtree rooted at index j.
RECURSIVE InSubtree(_, _)
InSubtree(x, j) ==
  IF x = j THEN TRUE
  ELSE IF x < j \/ x = 0 THEN FALSE
  ELSE InSubtree((x - 1) \div 2, j)

\* The subtree of list h rooted at index j is in heap order.
SubtreeOrdered(h, j, m) ==
  \A x \in 0..(Len(h) - 1) :
    InSubtree(x, j) =>
      \A c \in {2 * x + 1, 2 * x + 2} :
        c < Len(h) => MayParent(h[x + 1], h[c + 1], m)

\* C17: build_heap makes its sift-downs at the roots floor(length / 2) - 1
\* down to 0, one each, in that order; at the end of the sift-down rooted at
\* i every subtree rooted at an index j >= i is in heap order, and the list
\* at the end of the last one is the final list, in heap order as a whole.
C17_BuildBottomUp ==
  call.op = "build_heap" =>
    LET n == Len(call.arr)
        sf == call.sifted
    IN  /\ call.pc = "returned" => Len(sf) = n \div 2
        /\ \A k \in 1..Len(sf) :
             /\ sf[k].root = (n \div 2) - k
             /\ \A j \in sf[k].root..(n - 1) : SubtreeOrdered(sf[k].heap, j, is_min)
        /\ (call.pc = "returned" /\ sf # <<>>) =>
             (sf[Len(sf)].heap = heap /\ HeapOrdered(heap, is_min))

\* C17 case: a build_heap of five values whose first sift-down, at root 1,
\* changed the list and whose second, at root 0, changed it again.
C17_Witness ==
  /\ Done("build_heap")
  /\ Len(call.arr) = 5
  /\ Len(call.sifted) = 2
  /\ call.sifted[1].heap # call.arr
  /\ call.sifted[2].heap # call.sifted[1].heap
  /\ ~HeapOrdered(call.sifted[1].heap, is_min)

\* C18: in every step of build_heap, and when it has returned, the caller's
\* list holds what it held when it was passed.
C18_InputUnchanged ==
  call.op = "build_heap" => call.arr_after = call.arr

\* C18 case: a build_heap that made two exchanges or more on its own list.
C18_Witness ==
  /\ Done("build_heap")
  /\ call.swaps >= 2
  /\ heap # call.arr
  /\ call.arr_after = call.arr

\* The indices from the root down to index i, in that order.
RECURSIVE PathTo(_)
PathTo(i) == IF i = 0 THEN <<0>> ELSE Append(PathTo((i - 1) \div 2), i)

\* Sequence q without its item k.
Without(q, k) == SubSeq(q, 1, k - 1) \o SubSeq(q, k + 1, Len(q))

\* C19: in every step of an insert every item off the path from the root to
\* the new last index is where it was; along that path the old items keep
\* their order from the top down, with the inserted value put in among them,
\* one place higher for each exchange.
C19_InsertFrame ==
  call.op = "insert" =>
    LET n == Len(call.before)
        path == PathTo(n)
        on == {path[k] : k \in 1..Len(path)}
        old == [k \in 1..(Len(path) - 1) |-> call.before[path[k] + 1]]
        new == [k \in 1..Len(path) |-> heap[path[k] + 1]]
    IN  /\ Len(heap) = n + 1
        /\ \A q \in 0..(n - 1) : q \notin on => heap[q + 1] = call.before[q + 1]
        /\ \E k \in 1..Len(new) :
             /\ new[k] = call.val
             /\ Without(new, k) = old
             /\ k = Len(new) - call.swaps

\* C19 case: an insert at index 4 that made one exchange, beside two items
\* off its path that differ from the value.
C19_Witness ==
  /\ Done("insert")
  /\ len(heap) = 5
  /\ call.swaps = 1
  /\ heap[2] = call.val
  /\ heap[3] # call.val
  /\ heap[4] # call.val
  /\ heap[3] # heap[4]

====
